---- MODULE Spec2Model ----
(***************************************************************************)
(* The accessibility bridge of kitty/accessibility.c: the Python-callable  *)
(* functions accessibility_get_terminal_text, ..._get_cursor_text_position,*)
(* ..._insert_text_at_cursor, ..._set_cursor_position,                     *)
(* ..._get_number_of_characters, ..._get_visible_character_range and       *)
(* ..._post_notification, over the Boss's window_id_map.                   *)
(*                                                                         *)
(* C strings and Python strings are sequences of character codes, so that  *)
(* strcmp, concatenation and length are computed and not assumed.          *)
(***************************************************************************)
EXTENDS Integers, Sequences, FiniteSets, TLC

\* ---------------------------------------------------------------- bounds
MaxColumns == 3
MaxLines == 3
MaxHistory == 2
MaxScroll == 3
MaxTextLen == 2
MaxEffects == 1

VARIABLES
    boss,           \* global_state.boss is not NULL
    apple,          \* the build defines __APPLE__
    window_id_map,  \* boss.window_id_map: window id -> Window (with its Screen)
    child,          \* per window, the payloads passed to Window.write_to_child
    posted,         \* the names passed to cocoa_post_accessibility_notification
    ret             \* the last call of the module's API and what it returned

vars == <<boss, apple, window_id_map, child, posted, ret>>

\* ------------------------------------------------------- strings of the code
\* the literals of process_voice_command, as character codes
new_line == <<110, 101, 119, 32, 108, 105, 110, 101>>
newline == <<110, 101, 119, 108, 105, 110, 101>>
tab == <<116, 97, 98>>
escape == <<101, 115, 99, 97, 112, 101>>
space == <<115, 112, 97, 99, 101>>
backspace == <<98, 97, 99, 107, 115, 112, 97, 99, 101>>
delete == <<100, 101, 108, 101, 116, 101>>
enter == <<101, 110, 116, 101, 114>>
return == <<114, 101, 116, 117, 114, 110>>
LF == <<10>>
HT == <<9>>
ESC == <<27>>
SP == <<32>>
DEL == <<127>>
CR == <<13>>

\* the literals of post_accessibility_notification
value_changed == <<118, 97, 108, 117, 101, 95, 99, 104, 97, 110, 103, 101, 100>>
selection_changed == <<115, 101, 108, 101, 99, 116, 105, 111, 110, 95, 99, 104, 97, 110, 103, 101, 100>>
focus_changed == <<102, 111, 99, 117, 115, 95, 99, 104, 97, 110, 103, 101, 100>>
layout_changed == <<108, 97, 121, 111, 117, 116, 95, 99, 104, 97, 110, 103, 101, 100>>

\* ------------------------------------------------------------------ inputs
\* phrases that are no command: wrong case, free text, a phrase that contains,
\* extends or is a prefix of a command word, and the empty string
NEW_LINE == <<78, 69, 87, 32, 76, 73, 78, 69>>
hello_world == <<104, 101, 108, 108, 111, 32, 119, 111, 114, 108, 100>>
press_tab == <<112, 114, 101, 115, 115, 32, 116, 97, 98>>
tabs == <<116, 97, 98, 115>>
ta == <<116, 97>>
title_changed == <<116, 105, 116, 108, 101, 95, 99, 104, 97, 110, 103, 101, 100>>

CommandPhrases ==
    {new_line, newline, tab, escape, space, backspace, delete, enter, return}
Phrases == CommandPhrases \cup {NEW_LINE, hello_world, press_tab, tabs, ta, <<>>}
Kinds == {value_changed, selection_changed, focus_changed, layout_changed, title_changed}

\* A Python integer q * 2^30 + r with 0 <= r < 2^30 (an integer of the model has
\* 32 bits itself, so the values next to the limits of a C int are held in two parts)
PyLong(q, r) == [q |-> q, r |-> r]
Zero == PyLong(0, 0)
INT_MAX == PyLong(1, 2^30 - 1)
INT_MIN == PyLong(-2, 0)
\* -1, 0, 8165, INT_MAX, INT_MAX + 1, INT_MIN, INT_MIN - 1
Positions ==
    {PyLong(-1, 2^30 - 1), Zero, PyLong(0, 8165), INT_MAX, PyLong(2, 0),
     INT_MIN, PyLong(-3, 2^30 - 1)}
\* the range of the C int that PyArg_ParseTuple's "i" converts to
FitsInt(n) == n.q >= INT_MIN.q /\ n.q <= INT_MAX.q

WindowIds == {1, 2, 3}
KnownIds == {1, 2}

\* ------------------------------------------------------------ Python values
PyStr(s) == [type |-> "str", s |-> s]
PyNone == [type |-> "None", s |-> <<>>]
PyNULL == [type |-> "NULL", s |-> <<>>]

\* what a call returns: NULL with an exception set, or a value
Result(err, type, text, num, range) ==
    [err |-> err, type |-> type, text |-> text, num |-> num, range |-> range]
Raise(err) == Result(err, "NULL", <<>>, 0, <<0, 0>>)
ReturnNone == Result("", "None", <<>>, 0, <<0, 0>>)
ReturnStr(s) == Result("", "str", s, 0, <<0, 0>>)
ReturnLong(n) == Result("", "int", <<>>, n, <<0, 0>>)
ReturnTuple(a, b) == Result("", "tuple", <<>>, 0, <<a, b>>)

BossNotAvailable == "RuntimeError: Boss object not available"
WindowNotFound == "ValueError: Window with ID not found"
WriteFailed == "RuntimeError: Failed to write text to terminal"
IntOverflow == "OverflowError: signed integer out of range"

Call(op, id, text, position, r) ==
    [op |-> op, window_id |-> id, text |-> text, position |-> position, r |-> r]
NoCall == Call("none", 0, <<>>, Zero, ReturnNone)

\* A Window with its Screen: cursor (x, y), columns, lines, scrolled_by,
\* len(historybuf), and what historybuf.as_text() and str(linebuf) give
Window(columns, lines, history_lines, scrolled_by, x, y, historybuf_text, linebuf_text) ==
    [columns |-> columns, lines |-> lines, history_lines |-> history_lines,
     scrolled_by |-> scrolled_by, x |-> x, y |-> y,
     historybuf_text |-> historybuf_text, linebuf_text |-> linebuf_text]

\* --------------------------------------------------------------- the code
\* mutant: only the first strlen(b) characters are compared
RECURSIVE strcmp_prefix(_, _)
strcmp_prefix(a, b) ==
    IF b = <<>> THEN 0
    ELSE IF a = <<>> THEN 0 - Head(b)
    ELSE IF Head(a) # Head(b) THEN Head(a) - Head(b)
    ELSE strcmp_prefix(Tail(a), Tail(b))

RECURSIVE strcmp(_, _)
strcmp(a, b) ==
    IF a = <<>> /\ b = <<>> THEN 0
    ELSE IF a = <<>> THEN 0 - Head(b)
    ELSE IF b = <<>> THEN Head(a)
    ELSE IF Head(a) # Head(b) THEN Head(a) - Head(b)
    ELSE strcmp(Tail(a), Tail(b))

\* mutant: an id that is not in the map resolves to the first window
get_window_from_id_fallback(window_id) ==
    IF ~boss THEN [err |-> BossNotAvailable, window |-> PyNULL]
    ELSE IF window_id \notin DOMAIN window_id_map
         THEN [err |-> "", window |-> window_id_map[1]]
         ELSE [err |-> "", window |-> window_id_map[window_id]]

get_window_from_id(window_id) ==
    IF ~boss THEN [err |-> BossNotAvailable, window |-> PyNULL]
    ELSE IF window_id \notin DOMAIN window_id_map
         THEN [err |-> WindowNotFound, window |-> PyNULL]
         ELSE [err |-> "", window |-> window_id_map[window_id]]

\* mutant: the newline is added whether or not there is history
get_terminal_text_always_newline(window_id) ==
    LET w == get_window_from_id(window_id) IN
    IF w.err # "" THEN Raise(w.err)
    ELSE
        LET historybuf_str == w.window.historybuf_text
            linebuf_str == w.window.linebuf_text
            result1 == IF historybuf_str.type = "str" THEN <<>> \o historybuf_str.s
                       ELSE <<>>
            result2 == IF linebuf_str.type # "NULL"
                       THEN result1 \o LF \o linebuf_str.s
                       ELSE result1
        IN  ReturnStr(result2)

get_terminal_text(window_id) ==
    LET w == get_window_from_id(window_id) IN
    IF w.err # "" THEN Raise(w.err)
    ELSE
        LET historybuf_str == w.window.historybuf_text
            linebuf_str == w.window.linebuf_text
            result1 == IF historybuf_str.type = "str" THEN <<>> \o historybuf_str.s
                       ELSE <<>>
            result2 == IF linebuf_str.type # "NULL"
                       THEN (IF Len(result1) > 0 THEN result1 \o LF ELSE result1)
                            \o linebuf_str.s
                       ELSE result1
        IN  ReturnStr(result2)

\* mutant: the scroll offset is left out
get_cursor_text_position_unscrolled(window_id) ==
    LET w == get_window_from_id(window_id) IN
    IF w.err # "" THEN Raise(w.err)
    ELSE ReturnLong((w.window.history_lines + w.window.y) * w.window.columns
                    + w.window.x)

\* mutant: the rows are counted upwards from the end of the history
get_cursor_text_position_rows_up(window_id) ==
    LET w == get_window_from_id(window_id) IN
    IF w.err # "" THEN Raise(w.err)
    ELSE ReturnLong((w.window.history_lines - w.window.scrolled_by - w.window.y)
                    * w.window.columns + w.window.x)

get_cursor_text_position(window_id) ==
    LET w == get_window_from_id(window_id) IN
    IF w.err # "" THEN Raise(w.err)
    ELSE
        LET x == w.window.x
            y == w.window.y
            columns == w.window.columns
            scrolled_by == w.window.scrolled_by
            history_lines == w.window.history_lines
            position == (history_lines - scrolled_by + y) * columns + x
        IN  ReturnLong(position)

process_voice_command(text) ==
    IF strcmp(text, new_line) = 0 \/ strcmp(text, newline) = 0 THEN LF
    ELSE IF strcmp(text, tab) = 0 THEN HT
    ELSE IF strcmp(text, escape) = 0 THEN ESC
    ELSE IF strcmp(text, space) = 0 THEN SP
    ELSE IF strcmp(text, backspace) = 0 THEN DEL
    ELSE IF strcmp(text, delete) = 0 THEN DEL
    ELSE IF strcmp(text, enter) = 0 \/ strcmp(text, return) = 0 THEN CR
    ELSE text

\* mutant: the text is written as it was dictated
insert_text_at_cursor_raw(window_id, text, write_ok) ==
    LET w == get_window_from_id(window_id)
    IN  IF w.err # "" THEN [r |-> Raise(w.err), child |-> child]
        ELSE [r |-> IF write_ok THEN ReturnNone ELSE Raise(WriteFailed),
              child |-> [child EXCEPT ![window_id] = Append(@, text)]]

\* write_ok: whether Window.write_to_child returns normally
insert_text_at_cursor(window_id, text, write_ok) ==
    LET processed_text == process_voice_command(text)
        w == get_window_from_id(window_id)
    IN  IF w.err # "" THEN [r |-> Raise(w.err), child |-> child]
        ELSE [r |-> IF write_ok THEN ReturnNone ELSE Raise(WriteFailed),
              child |-> [child EXCEPT ![window_id] = Append(@, processed_text)]]

\* mutant: the cursor of a known window is moved to the position
set_cursor_position_moves(window_id, position) ==
    IF ~FitsInt(position)
    THEN [r |-> Raise(IntOverflow), window_id_map |-> window_id_map]
    ELSE [r |-> ReturnNone,
          window_id_map |->
            [id \in DOMAIN window_id_map |->
                IF id = window_id
                THEN [window_id_map[id] EXCEPT
                        !.x = position.r % window_id_map[id].columns,
                        !.y = (position.r \div window_id_map[id].columns)
                              % window_id_map[id].lines]
                ELSE window_id_map[id]]]

set_cursor_position(window_id, position) ==
    IF ~FitsInt(position)
    THEN [r |-> Raise(IntOverflow), window_id_map |-> window_id_map]
    ELSE [r |-> ReturnNone, window_id_map |-> window_id_map]

\* mutant: a failure of get_terminal_text is turned into a count of 0
get_number_of_characters_zero_on_error(window_id) ==
    LET text == get_terminal_text(window_id) IN
    IF text.type = "NULL" THEN ReturnLong(0)
    ELSE ReturnLong(Len(text.text))

get_number_of_characters(window_id) ==
    LET text == get_terminal_text(window_id) IN
    IF text.type = "NULL" THEN text
    ELSE ReturnLong(Len(text.text))

\* mutant: start is not clamped at 0
get_visible_character_range_unclamped(window_id) ==
    LET w == get_window_from_id(window_id) IN
    IF w.err # "" THEN Raise(w.err)
    ELSE ReturnTuple((w.window.history_lines - w.window.scrolled_by) * w.window.columns,
                     w.window.lines * w.window.columns)

\* mutant: the range starts at the end of the history, scrolled or not
get_visible_character_range_at_history_end(window_id) ==
    LET w == get_window_from_id(window_id) IN
    IF w.err # "" THEN Raise(w.err)
    ELSE ReturnTuple(w.window.history_lines * w.window.columns,
                     w.window.lines * w.window.columns)

get_visible_character_range(window_id) ==
    LET w == get_window_from_id(window_id) IN
    IF w.err # "" THEN Raise(w.err)
    ELSE
        LET columns == w.window.columns
            lines == w.window.lines
            scrolled_by == w.window.scrolled_by
            history_lines == w.window.history_lines
            start0 == (history_lines - scrolled_by) * columns
            length == lines * columns
            start == IF start0 < 0 THEN 0 ELSE start0
        IN  ReturnTuple(start, length)

\* mutant: the selection change is posted under the name of the value change
post_accessibility_notification_wrong_name(window_id, notification_type) ==
    [r |-> ReturnNone,
     posted |->
        IF ~apple THEN posted
        ELSE IF strcmp(notification_type, value_changed) = 0
             THEN Append(posted, "NSAccessibilityValueChangedNotification")
        ELSE IF strcmp(notification_type, selection_changed) = 0
             THEN Append(posted, "NSAccessibilityValueChangedNotification")
        ELSE IF strcmp(notification_type, focus_changed) = 0
             THEN Append(posted, "NSAccessibilityFocusedUIElementChangedNotification")
        ELSE IF strcmp(notification_type, layout_changed) = 0
             THEN Append(posted, "NSAccessibilityLayoutChangedNotification")
        ELSE posted]

post_accessibility_notification(window_id, notification_type) ==
    [r |-> ReturnNone,
     posted |->
        IF ~apple THEN posted
        ELSE IF strcmp(notification_type, value_changed) = 0
             THEN Append(posted, "NSAccessibilityValueChangedNotification")
        ELSE IF strcmp(notification_type, selection_changed) = 0
             THEN Append(posted, "NSAccessibilitySelectedTextChangedNotification")
        ELSE IF strcmp(notification_type, focus_changed) = 0
             THEN Append(posted, "NSAccessibilityFocusedUIElementChangedNotification")
        ELSE IF strcmp(notification_type, layout_changed) = 0
             THEN Append(posted, "NSAccessibilityLayoutChangedNotification")
        ELSE posted]

\* ------------------------------------------------------------- the actions
RECURSIVE SumLen(_, _)
SumLen(f, S) ==
    IF S = {} THEN 0
    ELSE LET i == CHOOSE j \in S : TRUE IN Len(f[i]) + SumLen(f, S \ {i})

\* calls to the collaborators made so far (the model stops recording at MaxEffects)
Effects == SumLen(child, DOMAIN child) + Len(posted)

GetTerminalText ==
    \E id \in WindowIds :
        /\ ret' = Call("get_terminal_text", id, <<>>, Zero, get_terminal_text(id))
        /\ UNCHANGED <<boss, apple, window_id_map, child, posted>>

GetCursorTextPosition ==
    \E id \in WindowIds :
        /\ ret' = Call("get_cursor_text_position", id, <<>>, Zero,
                       get_cursor_text_position(id))
        /\ UNCHANGED <<boss, apple, window_id_map, child, posted>>

InsertTextAtCursor ==
    \E id \in WindowIds, text \in Phrases, write_ok \in BOOLEAN :
        LET out == insert_text_at_cursor(id, text, write_ok) IN
        /\ out.child # child => Effects < MaxEffects
        /\ ret' = Call("insert_text_at_cursor", id, text, Zero, out.r)
        /\ child' = out.child
        /\ UNCHANGED <<boss, apple, window_id_map, posted>>

SetCursorPosition ==
    \E id \in WindowIds, position \in Positions :
        LET out == set_cursor_position(id, position) IN
        /\ ret' = Call("set_cursor_position", id, <<>>, position, out.r)
        /\ window_id_map' = out.window_id_map
        /\ UNCHANGED <<boss, apple, child, posted>>

GetNumberOfCharacters ==
    \E id \in WindowIds :
        /\ ret' = Call("get_number_of_characters", id, <<>>, Zero,
                       get_number_of_characters(id))
        /\ UNCHANGED <<boss, apple, window_id_map, child, posted>>

GetVisibleCharacterRange ==
    \E id \in WindowIds :
        /\ ret' = Call("get_visible_character_range", id, <<>>, Zero,
                       get_visible_character_range(id))
        /\ UNCHANGED <<boss, apple, window_id_map, child, posted>>

PostAccessibilityNotification ==
    \E id \in WindowIds, kind \in Kinds :
        LET out == post_accessibility_notification(id, kind) IN
        /\ out.posted # posted => Effects < MaxEffects
        /\ ret' = Call("post_accessibility_notification", id, kind, Zero, out.r)
        /\ posted' = out.posted
        /\ UNCHANGED <<boss, apple, window_id_map, child>>

\* ------------------------------------------------------------ the snapshots
Texts == UNION {[1..n -> {97, 10}] : n \in 0..MaxTextLen}

\* the scenario of the documentation: 80 x 24, 100 lines of history, not scrolled
ScenarioWindow == Window(80, 24, 100, 0, 5, 2, PyStr(<<97>>), PyStr(<<98>>))
SmallWindow == Window(2, 2, 1, 0, 1, 1, PyStr(<<>>), PyStr(<<98>>))

NoEffects ==
    /\ child = [id \in KnownIds |-> <<>>]
    /\ posted = <<>>
    /\ ret = NoCall

\* every operation, on two fixed windows
Init ==
    /\ boss \in BOOLEAN
    /\ apple \in BOOLEAN
    /\ window_id_map = (1 :> ScenarioWindow) @@ (2 :> SmallWindow)
    /\ NoEffects

Next ==
    \/ GetTerminalText
    \/ GetCursorTextPosition
    \/ InsertTextAtCursor
    \/ SetCursorPosition
    \/ GetNumberOfCharacters
    \/ GetVisibleCharacterRange
    \/ PostAccessibilityNotification

Spec == Init /\ [][Next]_vars

\* the position queries, on two windows of one geometry and any two cursors,
\* and on the scenario window
InitGeometry ==
    /\ boss = TRUE
    /\ apple \in BOOLEAN
    /\ \/ \E columns \in 1..MaxColumns, lines \in 1..MaxLines,
             history_lines \in 0..MaxHistory, scrolled_by \in 0..MaxScroll :
            \E x1 \in 0..(columns - 1), y1 \in 0..(lines - 1),
               x2 \in 0..(columns - 1), y2 \in 0..(lines - 1) :
                window_id_map =
                    (1 :> Window(columns, lines, history_lines, scrolled_by, x1, y1,
                                 PyStr(<<>>), PyStr(<<>>)))
                    @@ (2 :> Window(columns, lines, history_lines, scrolled_by, x2, y2,
                                    PyStr(<<>>), PyStr(<<>>)))
       \/ window_id_map = (1 :> ScenarioWindow) @@ (2 :> ScenarioWindow)
    /\ NoEffects

NextGeometry ==
    \/ GetCursorTextPosition
    \/ GetVisibleCharacterRange

SpecGeometry == InitGeometry /\ [][NextGeometry]_vars

\* the text queries, on any rendering of the two buffers of window 1
InitText ==
    /\ boss \in BOOLEAN
    /\ apple = TRUE
    /\ \E historybuf_text \in {PyStr(s) : s \in Texts} \cup {PyNone, PyNULL},
          linebuf_text \in {PyStr(s) : s \in Texts} \cup {PyNULL} :
            window_id_map =
                (1 :> Window(MaxTextLen + 1, 1, 1, 0, 0, 0, historybuf_text, linebuf_text))
                @@ (2 :> SmallWindow)
    /\ NoEffects

NextText ==
    \/ GetTerminalText
    \/ GetNumberOfCharacters

SpecText == InitText /\ [][NextText]_vars

\* ================================================================ claims
\* the last call was made with a live Boss on a window of the registry
OnKnownWindow == boss /\ ret.window_id \in DOMAIN window_id_map

\* the table of the command words, by plain comparison of the phrase
Normalize(text) ==
    CASE text \in {new_line, newline} -> <<10>>
      [] text = tab -> <<9>>
      [] text = escape -> <<27>>
      [] text = space -> <<32>>
      [] text \in {backspace, delete} -> <<127>>
      [] text \in {enter, return} -> <<13>>
      [] OTHER -> text

\* C1: on a known window the cursor offset is exactly
\* (history_lines - scrolled_by + y) * columns + x; with columns = 80,
\* history_lines = 100, scrolled_by = 0 and cursor (5, 2) it is 8165.
C1_CursorOffsetFormula ==
    (ret.op = "get_cursor_text_position" /\ OnKnownWindow) =>
        LET w == window_id_map[ret.window_id] IN
        /\ ret.r.err = ""
        /\ ret.r.type = "int"
        /\ ret.r.num = (w.history_lines - w.scrolled_by + w.y) * w.columns + w.x
        /\ (w.columns = 80 /\ w.history_lines = 100 /\ w.scrolled_by = 0
            /\ w.x = 5 /\ w.y = 2) => ret.r.num = 8165

C1_Witness ==
    /\ ret.op = "get_cursor_text_position"
    /\ OnKnownWindow
    /\ window_id_map[ret.window_id].columns = 80
    /\ ret.r.num = 8165

\* C2 (as claimed): every cursor offset returned for a cursor inside the grid
\* satisfies 0 <= offset <= history_lines * columns + lines * columns, also
\* when scrolled_by > history_lines.
C2_CursorOffsetInBuffer ==
    (ret.op = "get_cursor_text_position" /\ OnKnownWindow) =>
        LET w == window_id_map[ret.window_id] IN
        /\ 0 <= ret.r.num
        /\ ret.r.num <= w.history_lines * w.columns + w.lines * w.columns

\* C3: on a known window the visible range is (start, length) with
\* start = max(0, (history_lines - scrolled_by) * columns) and
\* length = lines * columns, so start >= 0 also when
\* scrolled_by > history_lines; the 80 x 24 window with 100 lines of history,
\* not scrolled, gives (8000, 1920).
C3_VisibleRangeFormula ==
    (ret.op = "get_visible_character_range" /\ OnKnownWindow) =>
        LET w == window_id_map[ret.window_id]
            start == ret.r.range[1]
            length == ret.r.range[2]
        IN  /\ ret.r.err = ""
            /\ ret.r.type = "tuple"
            /\ start >= 0
            /\ w.scrolled_by <= w.history_lines =>
                   start = (w.history_lines - w.scrolled_by) * w.columns
            /\ w.scrolled_by > w.history_lines => start = 0
            /\ length = w.lines * w.columns
            /\ (w.columns = 80 /\ w.lines = 24 /\ w.history_lines = 100
                /\ w.scrolled_by = 0) => (start = 8000 /\ length = 1920)

C3_Witness ==
    /\ ret.op = "get_visible_character_range"
    /\ OnKnownWindow
    /\ window_id_map[ret.window_id].scrolled_by
           > window_id_map[ret.window_id].history_lines
    /\ ret.r.range[1] = 0
    /\ ret.r.range[2] > 1

\* C7: on a known window get_terminal_text returns the history text, then one
\* newline if and only if the history text is not empty, then the text of the
\* live grid; with no history text it is the text of the live grid alone.
C7_TextIsHistoryNewlineGrid ==
    (ret.op = "get_terminal_text" /\ OnKnownWindow) =>
        LET w == window_id_map[ret.window_id]
            history == IF w.historybuf_text.type = "str" THEN w.historybuf_text.s
                       ELSE <<>>
            grid == w.linebuf_text.s
        IN  w.linebuf_text.type = "str" =>
                /\ ret.r.err = ""
                /\ ret.r.type = "str"
                /\ history # <<>> => ret.r.text = history \o <<10>> \o grid
                /\ history = <<>> => ret.r.text = grid

C7_Witness ==
    /\ ret.op = "get_terminal_text"
    /\ OnKnownWindow
    /\ window_id_map[ret.window_id].historybuf_text = PyStr(<<97, 10>>)
    /\ window_id_map[ret.window_id].linebuf_text = PyStr(<<10, 97>>)
    /\ ret.r.text = <<97, 10, 10, 10, 97>>

\* C8: get_number_of_characters called next to get_terminal_text for the same
\* window id, on the same snapshot, returns the length of the text, and the
\* one call fails exactly when the other does (and with the same error).
C8_CountIsLengthOfText ==
    [][\A text, count \in {ret, ret'} :
        (/\ text.op = "get_terminal_text"
         /\ count.op = "get_number_of_characters"
         /\ text.window_id = count.window_id)
        => /\ count.r.err = text.r.err
           /\ (text.r.type = "NULL") = (count.r.type = "NULL")
           /\ text.r.type = "str" =>
                  (count.r.type = "int" /\ count.r.num = Len(text.r.text))]_vars

C8_Witness ==
    /\ ret.op = "get_number_of_characters"
    /\ OnKnownWindow
    /\ window_id_map[ret.window_id].historybuf_text = PyStr(<<97>>)
    /\ window_id_map[ret.window_id].linebuf_text = PyStr(<<97, 97>>)
    /\ ret.r.num = 4

\* C9: for two cursors in one grid with scrolled_by <= history_lines, the cursor
\* offset does not decrease when y grows with x fixed, nor when x grows with
\* y fixed.
C9_CursorOffsetMonotone ==
    [][(/\ ret.op = "get_cursor_text_position"
        /\ ret'.op = "get_cursor_text_position"
        /\ OnKnownWindow
        /\ ret'.window_id \in DOMAIN window_id_map)
       => LET a == window_id_map[ret.window_id]
              b == window_id_map[ret'.window_id]
          IN  (/\ a.columns = b.columns /\ a.lines = b.lines
               /\ a.history_lines = b.history_lines
               /\ a.scrolled_by = b.scrolled_by
               /\ a.scrolled_by <= a.history_lines)
              => /\ (a.x = b.x /\ a.y <= b.y) => ret.r.num <= ret'.r.num
                 /\ (a.y = b.y /\ a.x <= b.x) => ret.r.num <= ret'.r.num]_vars

C9_Witness ==
    /\ ret.op = "get_cursor_text_position"
    /\ ret.window_id = 2
    /\ boss
    /\ window_id_map[1].scrolled_by <= window_id_map[1].history_lines
    /\ window_id_map[1].x = window_id_map[2].x
    /\ window_id_map[1].y < window_id_map[2].y
    /\ ret.r.num >= window_id_map[2].columns

\* C4: insert_text_at_cursor on a known window makes exactly one call of that
\* window's write_to_child, with the normalized text and not the dictated one:
\* for "new line" the child receives the single byte \n.
C4_InsertWritesNormalizedOnce ==
    [][(/\ ret'.op = "insert_text_at_cursor"
        /\ boss
        /\ ret'.window_id \in DOMAIN window_id_map)
       => /\ child' = [child EXCEPT
                        ![ret'.window_id] = Append(@, Normalize(ret'.text))]
          /\ ret'.text = new_line =>
                /\ child'[ret'.window_id] = Append(child[ret'.window_id], <<10>>)
                /\ child'[ret'.window_id] # Append(child[ret'.window_id], new_line)
          /\ UNCHANGED <<window_id_map, posted>>]_vars

C4_Witness ==
    /\ ret.op = "insert_text_at_cursor"
    /\ ret.text = new_line
    /\ ret.window_id = 2
    /\ ret.r.err = ""
    /\ child = (1 :> <<>>) @@ (2 :> <<(<<10>>)>>)

\* C5: the text that reaches the child is found by an exact, case-sensitive
\* comparison of the whole phrase: "new line" and "newline" give \n, "tab" \t,
\* "escape" \x1b, "space" a space, "backspace" and "delete" \x7f, "enter" and
\* "return" \r, and every other phrase is passed on unchanged.
C5_ExactCommandLookup ==
    (ret.op = "insert_text_at_cursor" /\ OnKnownWindow) =>
        LET sent == child[ret.window_id][Len(child[ret.window_id])] IN
        /\ ret.text = new_line => sent = <<10>>
        /\ ret.text = newline => sent = <<10>>
        /\ ret.text = tab => sent = <<9>>
        /\ ret.text = escape => sent = <<27>>
        /\ ret.text = space => sent = <<32>>
        /\ ret.text = backspace => sent = <<127>>
        /\ ret.text = delete => sent = <<127>>
        /\ ret.text = enter => sent = <<13>>
        /\ ret.text = return => sent = <<13>>
        /\ ret.text \notin CommandPhrases => sent = ret.text

C5_Witness ==
    /\ ret.op = "insert_text_at_cursor"
    /\ OnKnownWindow
    /\ ret.text = NEW_LINE
    /\ ret.r.err = ""
    /\ child[ret.window_id] = <<NEW_LINE>>

\* C6: with a window id that is not in the registry, get_terminal_text,
\* get_cursor_text_position, get_number_of_characters,
\* get_visible_character_range and insert_text_at_cursor fail with the lookup
\* error, and nothing is written to a child, no notification is posted, and
\* the registry and its windows stay as they were.
C6_UnknownWindowFailsWithoutEffect ==
    [][(/\ ret'.op \in {"get_terminal_text", "get_cursor_text_position",
                        "get_number_of_characters", "get_visible_character_range",
                        "insert_text_at_cursor"}
        /\ boss
        /\ ret'.window_id \notin DOMAIN window_id_map)
       => /\ ret'.r.type = "NULL"
          /\ ret'.r.err = WindowNotFound
          /\ UNCHANGED <<boss, window_id_map, child, posted>>]_vars

C6_Witness ==
    /\ ret.op = "insert_text_at_cursor"
    /\ boss
    /\ ret.window_id \notin DOMAIN window_id_map
    /\ ret.text = new_line
    /\ ret.r.err = WindowNotFound
    /\ Effects = 0

\* C10 (as claimed): set_cursor_position succeeds for every window id and every
\* position, and changes neither a cursor, scrolled_by, a buffer, what was
\* written to a child nor the registry, so that get_cursor_text_position returns
\* the same before and after it.
C10_SetCursorAlwaysSucceeds ==
    [][ret'.op = "set_cursor_position"
       => /\ ret'.r.err = ""
          /\ ret'.r.type = "None"
          /\ UNCHANGED <<boss, window_id_map, child, posted>>
          /\ \A id \in WindowIds :
                get_cursor_text_position(id)' = get_cursor_text_position(id)]_vars

\* C10 (amended): set_cursor_position succeeds for every window id and every
\* position from -2^31 to 2^31 - 1, and fails with an overflow error for every
\* other position; in both cases it changes neither a cursor, scrolled_by, a
\* buffer, what was written to a child nor the registry, so that
\* get_cursor_text_position returns the same before and after it.
C10_SetCursorNoOpWithinInt ==
    [][ret'.op = "set_cursor_position"
       => /\ ret'.position \in {PyLong(-2, 0), PyLong(-1, 2^30 - 1), PyLong(0, 0),
                                PyLong(0, 8165), PyLong(1, 2^30 - 1)}
                => (ret'.r.err = "" /\ ret'.r.type = "None")
          /\ ret'.position \in {PyLong(-3, 2^30 - 1), PyLong(2, 0)}
                => (ret'.r.err = IntOverflow /\ ret'.r.type = "NULL")
          /\ UNCHANGED <<boss, window_id_map, child, posted>>
          /\ \A id \in WindowIds :
                get_cursor_text_position(id)' = get_cursor_text_position(id)]_vars

C10_Witness ==
    /\ ret.op = "set_cursor_position"
    /\ OnKnownWindow
    /\ ret.position = PyLong(0, 8165)
    /\ ret.r.type = "None"
    /\ get_cursor_text_position(ret.window_id).num = 8165

\* the name under which a notification kind is posted, by plain comparison
NotificationName(kind) ==
    CASE kind = value_changed -> "NSAccessibilityValueChangedNotification"
      [] kind = selection_changed -> "NSAccessibilitySelectedTextChangedNotification"
      [] kind = focus_changed -> "NSAccessibilityFocusedUIElementChangedNotification"
      [] kind = layout_changed -> "NSAccessibilityLayoutChangedNotification"
      [] OTHER -> ""

\* C11 (as claimed): post_accessibility_notification never fails: for
\* value_changed, selection_changed, focus_changed and layout_changed it posts
\* exactly one notification, the one of that kind; for another kind it posts
\* none; it always returns None and writes nothing to a child.
C11_PostForwardsOneOfKind ==
    [][ret'.op = "post_accessibility_notification"
       => /\ ret'.r.err = ""
          /\ ret'.r.type = "None"
          /\ NotificationName(ret'.text) # "" =>
                posted' = Append(posted, NotificationName(ret'.text))
          /\ NotificationName(ret'.text) = "" => posted' = posted
          /\ UNCHANGED <<boss, window_id_map, child>>]_vars

\* C11 (amended): post_accessibility_notification never fails: in a build for
\* macOS (__APPLE__) it posts exactly one notification, the one of that kind,
\* for value_changed, selection_changed, focus_changed and layout_changed, and
\* none for another kind; in any other build it posts none for every kind; it
\* always returns None and writes nothing to a child.
C11_PostForwardsOneOfKindOnApple ==
    [][ret'.op = "post_accessibility_notification"
       => /\ ret'.r.err = ""
          /\ ret'.r.type = "None"
          /\ (apple /\ NotificationName(ret'.text) # "") =>
                posted' = Append(posted, NotificationName(ret'.text))
          /\ (apple /\ NotificationName(ret'.text) = "") => posted' = posted
          /\ ~apple => posted' = posted
          /\ UNCHANGED <<boss, apple, window_id_map, child>>]_vars

C11_Witness ==
    /\ ret.op = "post_accessibility_notification"
    /\ apple
    /\ ret.text = selection_changed
    /\ ret.r.type = "None"
    /\ posted = <<"NSAccessibilitySelectedTextChangedNotification">>
    /\ child = [id \in KnownIds |-> <<>>]

\* C12: for a window with scrolled_by <= history_lines and the cursor inside the
\* grid, the cursor offset and the visible range returned next to each other
\* satisfy start <= offset < start + length; and every visible range
\* satisfies start + length <= (history_lines + lines) * columns.
C12_CursorInsideVisibleRange ==
    [][/\ \A cursor, visible \in {ret, ret'} :
            (/\ cursor.op = "get_cursor_text_position"
             /\ visible.op = "get_visible_character_range"
             /\ cursor.window_id = visible.window_id
             /\ boss
             /\ cursor.window_id \in DOMAIN window_id_map)
            => LET w == window_id_map[cursor.window_id] IN
               w.scrolled_by <= w.history_lines =>
                    /\ visible.r.range[1] <= cursor.r.num
                    /\ cursor.r.num < visible.r.range[1] + visible.r.range[2]
       /\ (/\ ret'.op = "get_visible_character_range"
           /\ boss
           /\ ret'.window_id \in DOMAIN window_id_map)
          => LET w == window_id_map[ret'.window_id] IN
             ret'.r.range[1] + ret'.r.range[2]
                <= (w.history_lines + w.lines) * w.columns]_vars

C12_Witness ==
    /\ ret.op = "get_cursor_text_position"
    /\ OnKnownWindow
    /\ LET w == window_id_map[ret.window_id]
           visible == get_visible_character_range(ret.window_id).range
       IN  /\ w.scrolled_by >= 1
           /\ w.scrolled_by <= w.history_lines
           /\ w.x = w.columns - 1
           /\ w.y = w.lines - 1
           /\ w.columns > 1
           /\ ret.r.num = visible[1] + visible[2] - 1

====
